---- MODULE Spec2Model ----
(***************************************************************************)
(* Model of monitoring-target/procstat-textfile/procstat_textfile.py: the  *)
(* sampling loop of main(), the per-pid sampler get_process_info(), the    *)
(* accelerator merge collect_gpu_metrics(), the renderer                   *)
(* build_prom_lines() and the publisher write_metrics().                   *)
(*                                                                         *)
(* Units.  Wall-clock times are integers counting 0.0001 s (the epsilon    *)
(* of main(), line 274, is then 1).  A float cpu_percent is the exact      *)
(* rational <<num, den>>, den > 0; the ":.1f" rendering is Format1f.       *)
(***************************************************************************)
EXTENDS Integers, Sequences, FiniteSets, TLC

VARIABLES
    host,               \* the kind of host the sampler runs on (fixes the input sets)
    pc,                 \* position of main() in its loop
    top_n, min_rss, min_cpu, PAGE_SIZE,   \* read_env() results, os.sysconf
    prev_ticks_map,     \* RateState: pid -> cumulative ticks of the last pass
    prev_time,          \* timestamp of the last pass
    now_time,           \* timestamp of this pass
    pids,               \* pids of this pass still to be sampled
    current_procs,      \* samples of this pass that passed the thresholds
    current_ticks_map,  \* pid -> ticks of every pid sampled in this pass
    gpu_map,            \* result of collect_gpu_metrics()
    lines,              \* result of build_prom_lines()
    tmp,                \* the file OUTPUT_DIR/procstats.prom.tmp
    published,          \* the file OUTPUT_DIR/procstats.prom
    \* history variables: what happened, kept to state the properties; no
    \* action reads them to decide what the program does
    scanned,            \* this pass: <<pid, reads>> of every iteration of the for loop
    sampled,            \* this pass: every non-empty info, with its cpu_percent
    last_pass,          \* previous pass: pid -> ticks of every pid it sampled
    last_time,          \* previous pass: its timestamp
    seen,               \* pids sampled in some pass before the one last_pass holds
    last_dropped,       \* pids the pass before this one sampled and dropped by a threshold
    had_leftover,       \* whether the last open of the temporary file found lines in it
    pmon_out,           \* what the last "nvidia-smi pmon" call did
    apps_out            \* what the last "nvidia-smi --query-compute-apps" call did

vars == <<host, pc, top_n, min_rss, min_cpu, PAGE_SIZE, prev_ticks_map, prev_time,
          now_time, pids, current_procs, current_ticks_map, gpu_map,
          lines, tmp, published, scanned, sampled, last_pass, last_time, seen,
          last_dropped, had_leftover, pmon_out, apps_out>>

-----------------------------------------------------------------------------
(* Bounds of the model *)

MaxPid == 2
MaxTime == 1

Pids == 1..MaxPid

\* Wall-clock readings: multiples of one second.  The clock may stand still
\* or step backwards between two readings.
TimeUnitsPerSecond == 10000
Times == {k * TimeUnitsPerSecond : k \in 0..MaxTime}

CLK_TCK == 100

\* The hosts the sampler is started on.  Each fixes the environment settings
\* (TOP_N, MIN_RSS_BYTES, MIN_CPU_PERCENT), the page size and the inputs the
\* host can produce: which pids exist, how far a scan of a pid can get, the
\* counters it finds, whether file operations in OUTPUT_DIR can fail and
\* whether nvidia-smi runs.
Setups ==
    { [host |-> "steady",   top_n |-> 0, min_rss |-> 0,    min_cpu |-> 0,   page_size |-> 4096],
      [host |-> "exiting",  top_n |-> 0, min_rss |-> 0,    min_cpu |-> 0,   page_size |-> 4096],
      [host |-> "baddisk",  top_n |-> 0, min_rss |-> 0,    min_cpu |-> 0,   page_size |-> 4096],
      [host |-> "minrss",   top_n |-> 0, min_rss |-> 1000, min_cpu |-> 0,   page_size |-> 1],
      [host |-> "mincpu",   top_n |-> 0, min_rss |-> 0,    min_cpu |-> 250, page_size |-> 4096],
      [host |-> "capped",   top_n |-> 1, min_rss |-> 0,    min_cpu |-> 0,   page_size |-> 4096],
      [host |-> "gpu",      top_n |-> 0, min_rss |-> 0,    min_cpu |-> 0,   page_size |-> 4096],
      [host |-> "labels",   top_n |-> 0, min_rss |-> 0,    min_cpu |-> 0,   page_size |-> 4096] }

\* pids that can exist on the host
HostPids(h) ==
    IF h = "capped" THEN Pids
    ELSE IF h \in {"steady", "minrss"} THEN {1, 2}
    ELSE {1}

\* utime + stime values found in /proc/<pid>/stat
HostTicks(h) ==
    IF h \in {"minrss", "capped", "gpu", "labels"} THEN {100} ELSE {100, 350}

\* resident page counts found in /proc/<pid>/statm
HostPages(h) == IF h = "minrss" THEN {999, 1000} ELSE {256}

\* how many of the five reads of get_process_info can succeed before the
\* process is gone (5: the process stays)
HostExits(h) ==
    IF h = "exiting" THEN 0..5
    ELSE IF h \in {"capped", "labels"} THEN {5}
    ELSE {0, 5}

\* clock readings of the host: the hosts with several pids see two readings
HostTimes(h) ==
    IF h \in {"steady", "capped"}
    THEN {0, TimeUnitsPerSecond}
    ELSE Times

\* whether open, write, close or replace in OUTPUT_DIR can raise OSError
HostDiskFaults(h) == h = "baddisk"

\* Text is a sequence of characters, a character a one-character string;
\* NonAscii stands for a letter outside ASCII, such as U+00E9.
NonAscii == "U+00E9"

\* a path longer than a label may get
LongPath == [i \in 1..201 |-> IF i % 4 = 1 THEN "/" ELSE "d"]

\* contents of /proc/<pid>/comm
HostComms(h) ==
    IF h = "labels"
    THEN { <<"s", "h">>, <<"c", "a", "f", NonAscii>> }
    ELSE { <<"c", "o", "m", "m">> }

\* first argument in /proc/<pid>/cmdline
HostCmds(h) ==
    IF h = "labels"
    THEN { <<"/", "b", "i", "n", "/", "s", "h">>, LongPath }
    ELSE { <<"c", "m", "d", "0">> }

\* what uid_map.get(uid, str(uid)) gives for the owner of /proc/<pid>
HostUsers(h) ==
    IF h = "labels"
    THEN { <<"1", "0", "0", "0">>, <<"a", "@", "b">> }
    ELSE { <<"u", "s", "e", "r">> }

\* os.uname().nodename
NodeName == <<"n", "1", ".", "l", "a", "n">>

-----------------------------------------------------------------------------
(* Helpers *)

EmptyMap == [p \in {} |-> 0]

\* d[k] = v on a dict
Put(d, k, v) == [ q \in DOMAIN d \cup {k} |-> IF q = k THEN v ELSE d[q] ]

\* a file that does not exist / a file with the given line sequence
NoFile == [exists |-> FALSE, content |-> <<>>]
File(c) == [exists |-> TRUE, content |-> c]

\* Sequences over S without repetition, as os.scandir may list them
RECURSIVE PermsOf(_)
PermsOf(S) ==
    IF S = {} THEN {<<>>}
    ELSE UNION { {<<x>> \o s : s \in PermsOf(S \ {x})} : x \in S }

PidLists(S) == UNION { PermsOf(T) : T \in SUBSET S }

\* the elements of a sequence
Range(seq) == { seq[i] : i \in 1..Len(seq) }

-----------------------------------------------------------------------------
(* Floats as exact rationals *)

RECURSIVE GCD(_, _)
GCD(a, b) == IF b = 0 THEN a ELSE GCD(b, a % b)

\* the rational n/d (n >= 0, d > 0) in lowest terms
Rat(n, d) == LET g == GCD(n, d) IN [num |-> n \div g, den |-> d \div g]

Zero == Rat(0, 1)

\* c < k for a rational c and an integer k
RatLess(c, k) == c.num < k * c.den

\* format(c, ".1f"): c in tenths, rounded to nearest, ties to even
Format1f(c) ==
    LET q  == c.num \div c.den
        r  == c.num % c.den
        t  == (r * 10) \div c.den
        r2 == (r * 10) % c.den
        base == q * 10 + t
    IN  IF 2 * r2 > c.den THEN base + 1
        ELSE IF 2 * r2 < c.den THEN base
        ELSE IF base % 2 = 0 THEN base ELSE base + 1

-----------------------------------------------------------------------------
(* get_process_info: what the reads of /proc/<pid>/... return *)

\* read_file_content() returns "" for a file it cannot read
Unreadable == -1

\* A process that exits during the scan: the first k reads succeed (comm,
\* cmdline, os.stat, statm, stat, in the order of get_process_info) and every
\* later one fails.  k = 5 is a process that stays alive.
ExitAt(k, pages, ticks) ==
    [ comm    |-> k >= 1,
      cmdline |-> k >= 2,
      ostat   |-> k >= 3,
      statm   |-> IF k >= 4 THEN pages ELSE Unreadable,
      stat    |-> IF k >= 5 THEN ticks ELSE Unreadable ]

\* the text the successful reads deliver: comm, the first argument of
\* cmdline, the user name of the owner
WithText(rd, comm, cmd, user) ==
    [ comm      |-> rd.comm,
      cmdline   |-> rd.cmdline,
      ostat     |-> rd.ostat,
      statm     |-> rd.statm,
      stat      |-> rd.stat,
      comm_text |-> IF rd.comm THEN comm ELSE <<>>,
      cmd_text  |-> IF rd.cmdline THEN cmd ELSE <<>>,
      user_text |-> IF rd.ostat THEN user ELSE <<>> ]

ProcReads(h) ==
    { WithText(ExitAt(k, p, t), c, a, u) :
        k \in HostExits(h), p \in HostPages(h), t \in HostTicks(h),
        c \in HostComms(h), a \in HostCmds(h), u \in HostUsers(h) }

\* get_process_info() returns {} exactly when comm is unreadable or empty
InfoEmpty(rd) == ~rd.comm

\* str.isalnum() of one character: true for ASCII letters and digits and for
\* letters and digits outside ASCII
AsciiAlnum ==
    { "a", "b", "c", "d", "e", "f", "g", "h", "i", "j", "k", "l", "m",
      "n", "o", "p", "q", "r", "s", "t", "u", "v", "w", "x", "y", "z",
      "A", "B", "C", "D", "E", "F", "G", "H", "I", "J", "K", "L", "M",
      "N", "O", "P", "Q", "R", "S", "T", "U", "V", "W", "X", "Y", "Z",
      "0", "1", "2", "3", "4", "5", "6", "7", "8", "9" }
IsAlnum(c) == c \in AsciiAlnum \/ c = NonAscii

MaxLabelLen == 200

Sanitize(s) ==
    LET t == [ i \in 1..Len(s) |->
                 IF IsAlnum(s[i]) \/ s[i] \in {"_", ":", "-", "."}
                 THEN s[i] ELSE "_" ]
    IN  SubSeq(t, 1, IF Len(t) < MaxLabelLen THEN Len(t) ELSE MaxLabelLen)

\* the default of line 107
UnknownUser == <<"u", "n", "k", "n", "o", "w", "n">>

\* sanitize() of every text a host can deliver, computed once
Texts ==
    UNION { HostComms(st.host) \cup HostCmds(st.host) \cup HostUsers(st.host) :
            st \in Setups } \cup {UnknownUser, NodeName, <<>>}
Sanitized == [ s \in Texts |-> Sanitize(s) ]

GetProcessInfo(pid, rd, page_size) ==
    [ pid       |-> pid,
      name      |-> Sanitized[rd.comm_text],
      username  |-> Sanitized[IF rd.ostat THEN rd.user_text ELSE UnknownUser],
      exe       |-> Sanitized[IF rd.cmdline THEN rd.cmd_text ELSE rd.comm_text],
      rss       |-> IF rd.statm = Unreadable THEN 0 ELSE rd.statm * page_size,
      cpu_ticks |-> IF rd.stat = Unreadable THEN 0 ELSE rd.stat ]

-----------------------------------------------------------------------------
(* The rate computation of main() *)

Epsilon == 1

\* a slip that leaves out the floor of lines 273-274
TimeDeltaUnfloored(now, prev) == now - prev

TimeDelta(now, prev) == IF now - prev <= 0 THEN Epsilon ELSE now - prev

\* a slip that leaves out the factor 100
CpuFraction(pid, current_ticks, prev_map, time_delta) ==
    IF pid \in DOMAIN prev_map /\ current_ticks - prev_map[pid] >= 0
    THEN Rat((current_ticks - prev_map[pid]) * TimeUnitsPerSecond,
             CLK_TCK * time_delta)
    ELSE Zero

\* a slip that leaves out the test of the sign of the delta
CpuPercentUnclamped(pid, current_ticks, prev_map, time_delta) ==
    IF pid \in DOMAIN prev_map
    THEN Rat((current_ticks - prev_map[pid]) * 100 * TimeUnitsPerSecond,
             CLK_TCK * time_delta)
    ELSE Zero

\* cpu_percent of one pid: 0.0 unless the pid has a previous value and the
\* tick delta is not negative
CpuPercent(pid, current_ticks, prev_map, time_delta) ==
    IF pid \in DOMAIN prev_map /\ current_ticks - prev_map[pid] >= 0
    THEN Rat((current_ticks - prev_map[pid]) * 100 * TimeUnitsPerSecond,
             CLK_TCK * time_delta)
    ELSE Zero

\* a slip that makes the two bounds exclusive
BelowOrAtThresholds(info, mcpu, mrss) ==
    \/ mcpu > 0 /\ info.cpu_percent.num <= mcpu * info.cpu_percent.den
    \/ mrss > 0 /\ info.rss <= mrss

\* the two "continue" tests of the thresholds
BelowThresholds(info, mcpu, mrss) ==
    \/ mcpu > 0 /\ RatLess(info.cpu_percent, mcpu)
    \/ mrss > 0 /\ info.rss < mrss

WithCpu(info, c) ==
    [ pid |-> info.pid, name |-> info.name, username |-> info.username,
      exe |-> info.exe, rss |-> info.rss, cpu_ticks |-> info.cpu_ticks,
      cpu_percent |-> c ]

-----------------------------------------------------------------------------
(* collect_gpu_metrics *)

\* the outcome of one nvidia-smi call: the rows it printed, and whether
\* check_output returned them (ok) or raised (tool absent, non-zero exit)
QueryFailed == [ok |-> FALSE, rows |-> <<>>]
QueryFailedAfter(r) == [ok |-> FALSE, rows |-> r]
QueryRows(r) == [ok |-> TRUE, rows |-> r]

\* rows "nvidia-smi pmon" can print (device, pid, sm, mem): pid 1 on
\* devices 0 and 1
PmonRowA == [gpu |-> <<"0">>, pid |-> 1, sm |-> 50, mem |-> 20]
PmonRowB == [gpu |-> <<"1">>, pid |-> 1, sm |-> 70, mem |-> 30]

\* rows "nvidia-smi --query-compute-apps" can print (pid, used_memory,
\* index): pids 1 and 2 on device 0, and a row whose third field is the
\* tool's mark for a value it does not have
AppsRowA == [pid |-> 1, fb |-> 300, gpu |-> <<"0">>]
AppsRowC == [pid |-> 2, fb |-> 500, gpu |-> <<"0">>]
AppsRowNA == [pid |-> 1, fb |-> 300, gpu |-> <<"[", "N", "/", "A", "]">>]

PmonOutputs(h) ==
    IF h = "gpu"
    THEN { QueryFailed, QueryFailedAfter(<<PmonRowA>>), QueryRows(<<>>),
           QueryRows(<<PmonRowA>>), QueryRows(<<PmonRowB>>),
           QueryRows(<<PmonRowA, PmonRowB>>) }
    ELSE { QueryFailed }

AppsOutputs(h) ==
    IF h = "gpu"
    THEN { QueryFailed, QueryFailedAfter(<<AppsRowA>>), QueryRows(<<>>),
           QueryRows(<<AppsRowA>>), QueryRows(<<AppsRowC>>),
           QueryRows(<<AppsRowC, AppsRowA>>) }
    ELSE IF h = "labels" THEN { QueryFailed, QueryRows(<<AppsRowNA>>) }
    ELSE { QueryFailed }

\* position of key (pid, gpu) in the insertion-ordered dict, 0 if absent
KeyIndex(metrics, pid, gpu) ==
    LET hits == { i \in 1..Len(metrics) :
                    metrics[i].pid = pid /\ metrics[i].gpu = gpu }
    IN  IF hits = {} THEN 0 ELSE CHOOSE i \in hits : TRUE

\* metrics[key] = {...}: a new value under an old or a new key
PutEntry(metrics, e) ==
    LET i == KeyIndex(metrics, e.pid, e.gpu)
    IN  IF i = 0 THEN Append(metrics, e) ELSE [metrics EXCEPT ![i] = e]

RECURSIVE MergePmon(_, _)
MergePmon(metrics, rows) ==
    IF rows = <<>> THEN metrics
    ELSE LET r == Head(rows)
         IN  MergePmon(PutEntry(metrics,
                                [gpu |-> r.gpu, pid |-> r.pid, sm |-> r.sm,
                                 mem |-> r.mem, fb |-> 0]),
                       Tail(rows))

\* a slip that stores a fresh entry for every memory row
RECURSIVE MergeAppsOverwriting(_, _)
MergeAppsOverwriting(metrics, rows) ==
    IF rows = <<>> THEN metrics
    ELSE LET r == Head(rows)
         IN  MergeAppsOverwriting(PutEntry(metrics,
                                           [gpu |-> r.gpu, pid |-> r.pid, sm |-> 0,
                                            mem |-> 0, fb |-> r.fb]),
                                  Tail(rows))

RECURSIVE MergeApps(_, _)
MergeApps(metrics, rows) ==
    IF rows = <<>> THEN metrics
    ELSE LET r == Head(rows)
             i == KeyIndex(metrics, r.pid, r.gpu)
         IN  MergeApps(IF i # 0
                       THEN [metrics EXCEPT ![i].fb = r.fb]
                       ELSE Append(metrics,
                                   [gpu |-> r.gpu, pid |-> r.pid, sm |-> 0,
                                    mem |-> 0, fb |-> r.fb]),
                       Tail(rows))

\* the dict pid -> list of entries, in insertion order
GroupByPid(metrics) ==
    [ p \in { metrics[i].pid : i \in 1..Len(metrics) } |->
        SelectSeq(metrics, LAMBDA m : m.pid = p) ]

\* what the try block of a query gets to parse: nothing when check_output
\* raised
ParsedRows(q) == IF q.ok THEN q.rows ELSE <<>>

\* a slip that puts both queries in one try block
CollectGpuMetricsOneTry(pmon, apps) ==
    IF pmon.ok
    THEN GroupByPid(MergeApps(MergePmon(<<>>, pmon.rows), ParsedRows(apps)))
    ELSE EmptyMap

CollectGpuMetrics(pmon, apps) ==
    GroupByPid(MergeApps(MergePmon(<<>>, ParsedRows(pmon)), ParsedRows(apps)))

-----------------------------------------------------------------------------
(* build_prom_lines *)

NoGpu == <<>>

Line(metric, p, gpu, value) ==
    [ metric |-> metric, pid |-> p.pid, process |-> p.name,
      user |-> p.username, exe |-> p.exe, instance |-> Sanitized[NodeName],
      gpu |-> gpu, value |-> value ]

\* a slip that leaves out the framebuffer line
RECURSIVE GpuLinesWithoutFb(_, _)
GpuLinesWithoutFb(p, entries) ==
    IF entries = <<>> THEN <<>>
    ELSE LET g == Head(entries)
         IN  << Line("proc_gpu_sm_percent", p, g.gpu, g.sm),
                Line("proc_gpu_mem_percent", p, g.gpu, g.mem) >>
             \o GpuLinesWithoutFb(p, Tail(entries))

RECURSIVE GpuLines(_, _)
GpuLines(p, entries) ==
    IF entries = <<>> THEN <<>>
    ELSE LET g == Head(entries)
         IN  << Line("proc_gpu_sm_percent", p, g.gpu, g.sm),
                Line("proc_gpu_mem_percent", p, g.gpu, g.mem),
                Line("proc_gpu_fb_mem_mib", p, g.gpu, g.fb) >>
             \o GpuLines(p, Tail(entries))

ProcLines(p, gmap) ==
    << Line("proc_cpu_percent", p, NoGpu, Format1f(p.cpu_percent)),
       Line("proc_memory_rss_bytes", p, NoGpu, p.rss) >>
    \o GpuLines(p, IF p.pid \in DOMAIN gmap THEN gmap[p.pid] ELSE <<>>)

RECURSIVE BuildPromLines(_, _)
BuildPromLines(proc_list, gmap) ==
    IF proc_list = <<>> THEN <<>>
    ELSE ProcLines(Head(proc_list), gmap) \o BuildPromLines(Tail(proc_list), gmap)

-----------------------------------------------------------------------------
(* main *)

Init ==
    /\ pc = "loop_start"
    /\ \E s \in Setups :
         /\ host = s.host
         /\ top_n = s.top_n
         /\ min_rss = s.min_rss
         /\ min_cpu = s.min_cpu
         /\ PAGE_SIZE = s.page_size
    /\ prev_ticks_map = EmptyMap
    /\ prev_time \in HostTimes(host)
    /\ now_time = prev_time
    /\ pids = <<>>
    /\ current_procs = <<>>
    /\ current_ticks_map = EmptyMap
    /\ scanned = <<>>
    /\ sampled = <<>>
    /\ last_pass = EmptyMap
    /\ last_time = prev_time
    /\ seen = {}
    /\ last_dropped = {}
    /\ had_leftover = FALSE
    /\ gpu_map = EmptyMap
    /\ pmon_out = QueryFailed
    /\ apps_out = QueryFailed
    /\ lines = <<>>
    /\ tmp = NoFile
    /\ published = NoFile

config == <<host, top_n, min_rss, min_cpu, PAGE_SIZE>>
files == <<tmp, published>>
rate_state == <<prev_ticks_map, prev_time>>
pass_state == <<now_time, pids, current_procs, current_ticks_map, scanned, sampled>>
history == <<last_pass, last_time, seen, last_dropped, had_leftover>>
gpu_state == <<gpu_map, pmon_out, apps_out>>

\* lines 265-274: enumerate the pids, take the timestamp, start the pass
LoopStart ==
    /\ pc = "loop_start"
    /\ \E ps \in PidLists(HostPids(host)), t \in HostTimes(host) :
         /\ pids' = ps
         /\ now_time' = t
    /\ current_procs' = <<>>
    /\ current_ticks_map' = EmptyMap
    /\ scanned' = <<>>
    /\ sampled' = <<>>
    /\ pc' = "sample"
    /\ UNCHANGED <<config, rate_state, gpu_state, lines, files, history>>

\* lines 276-299: one iteration of the for loop
\* a slip that updates the previous ticks inside the loop over the pids
SamplePidInPlace ==
    /\ pc = "sample"
    /\ pids # <<>>
    /\ \E rd \in ProcReads(host) :
         LET pid == Head(pids)
             raw == GetProcessInfo(pid, rd, PAGE_SIZE)
             cpu == CpuPercent(raw.pid, raw.cpu_ticks, prev_ticks_map,
                               TimeDelta(now_time, prev_time))
             info == WithCpu(raw, cpu)
         IN  /\ scanned' = Append(scanned, [pid |-> pid, rd |-> rd])
             /\ IF InfoEmpty(rd)
                THEN UNCHANGED <<current_procs, current_ticks_map, sampled>>
                ELSE
                  /\ current_ticks_map' = Put(current_ticks_map, raw.pid, raw.cpu_ticks)
                  /\ sampled' = Append(sampled, info)
                  /\ current_procs' =
                       IF BelowThresholds(info, min_cpu, min_rss)
                       THEN current_procs
                       ELSE Append(current_procs, info)
    /\ pids' = Tail(pids)
    /\ pc' = "sample"
    /\ prev_ticks_map' = current_ticks_map'
    /\ UNCHANGED <<config, prev_time, now_time, gpu_state, lines, files, history>>

\* a slip that applies the thresholds before line 291 records the ticks
SamplePidFilterFirst ==
    /\ pc = "sample"
    /\ pids # <<>>
    /\ \E rd \in ProcReads(host) :
         LET pid == Head(pids)
             raw == GetProcessInfo(pid, rd, PAGE_SIZE)
             cpu == CpuPercent(raw.pid, raw.cpu_ticks, prev_ticks_map,
                               TimeDelta(now_time, prev_time))
             info == WithCpu(raw, cpu)
         IN  /\ scanned' = Append(scanned, [pid |-> pid, rd |-> rd])
             /\ IF InfoEmpty(rd)
                THEN UNCHANGED <<current_procs, current_ticks_map, sampled>>
                ELSE
                  /\ current_ticks_map' =
                       IF BelowThresholds(info, min_cpu, min_rss)
                       THEN current_ticks_map
                       ELSE Put(current_ticks_map, raw.pid, raw.cpu_ticks)
                  /\ sampled' = Append(sampled, info)
                  /\ current_procs' =
                       IF BelowThresholds(info, min_cpu, min_rss)
                       THEN current_procs
                       ELSE Append(current_procs, info)
    /\ pids' = Tail(pids)
    /\ pc' = "sample"
    /\ UNCHANGED <<config, rate_state, now_time, gpu_state, lines, files, history>>

\* lines 276-299: one iteration of the loop over the pids
SamplePid ==
    /\ pc = "sample"
    /\ pids # <<>>
    /\ \E rd \in ProcReads(host) :
         LET pid == Head(pids)
             raw == GetProcessInfo(pid, rd, PAGE_SIZE)
             cpu == CpuPercent(raw.pid, raw.cpu_ticks, prev_ticks_map,
                               TimeDelta(now_time, prev_time))
             info == WithCpu(raw, cpu)
         IN  /\ scanned' = Append(scanned, [pid |-> pid, rd |-> rd])
             /\ IF InfoEmpty(rd)
                THEN UNCHANGED <<current_procs, current_ticks_map, sampled>>
                ELSE
                  /\ current_ticks_map' = Put(current_ticks_map, raw.pid, raw.cpu_ticks)
                  /\ sampled' = Append(sampled, info)
                  /\ current_procs' =
                       IF BelowThresholds(info, min_cpu, min_rss)
                       THEN current_procs
                       ELSE Append(current_procs, info)
    /\ pids' = Tail(pids)
    /\ pc' = "sample"
    /\ UNCHANGED <<config, rate_state, now_time, gpu_state, lines, files, history>>

\* a slip that keeps the entries of pids missing from this pass
MergedTicksMap(prev, cur) ==
    [ q \in DOMAIN prev \cup DOMAIN cur |-> IF q \in DOMAIN cur THEN cur[q] ELSE prev[q] ]

\* line 301: prev_ticks_map = current_ticks_map
NewPrevTicksMap(prev, cur) == cur

\* the ticks of every pid the pass sampled, from the history of the pass
RECURSIVE TicksOf(_)
TicksOf(infos) ==
    IF infos = <<>> THEN EmptyMap
    ELSE Put(TicksOf(SubSeq(infos, 1, Len(infos) - 1)),
             infos[Len(infos)].pid, infos[Len(infos)].cpu_ticks)

\* a slip that forgets line 302
ReplaceTicksOnly ==
    /\ pc = "sample"
    /\ pids = <<>>
    /\ prev_ticks_map' = NewPrevTicksMap(prev_ticks_map, current_ticks_map)
    /\ last_pass' = TicksOf(sampled)
    /\ last_time' = now_time
    /\ seen' = seen \cup DOMAIN last_pass
    /\ last_dropped' = { i.pid : i \in { x \in Range(sampled) : x \notin Range(current_procs) } }
    /\ pc' = "gpu"
    /\ UNCHANGED <<config, prev_time, pass_state, gpu_state, lines, files, had_leftover>>

\* lines 301-302: RateState is replaced
ReplaceRateState ==
    /\ pc = "sample"
    /\ pids = <<>>
    /\ prev_ticks_map' = NewPrevTicksMap(prev_ticks_map, current_ticks_map)
    /\ prev_time' = now_time
    /\ last_pass' = TicksOf(sampled)
    /\ last_time' = now_time
    /\ seen' = seen \cup DOMAIN last_pass
    /\ last_dropped' = { i.pid : i \in { x \in Range(sampled) : x \notin Range(current_procs) } }
    /\ pc' = "gpu"
    /\ UNCHANGED <<config, pass_state, gpu_state, lines, files, had_leftover>>

\* line 304
CollectGpu ==
    /\ pc = "gpu"
    /\ \E pmon \in PmonOutputs(host), apps \in AppsOutputs(host) :
         /\ gpu_map' = CollectGpuMetrics(pmon, apps)
         /\ pmon_out' = pmon
         /\ apps_out' = apps
    /\ pc' = "build"
    /\ UNCHANGED <<config, rate_state, pass_state, lines, files, history>>

\* line 305
BuildLines ==
    /\ pc = "build"
    /\ lines' = BuildPromLines(current_procs, gpu_map)
    /\ pc' = "open"
    /\ UNCHANGED <<config, rate_state, pass_state, gpu_state, files, history>>

-----------------------------------------------------------------------------
(* write_metrics, step by step, and the rest of the loop *)

\* a slip that opens the temporary file for appending
OpenTmpAppending ==
    /\ pc = "open"
    /\ tmp' = File(tmp.content)
    /\ had_leftover' = (tmp.content # <<>>)
    /\ pc' = "write"
    /\ UNCHANGED <<config, rate_state, pass_state, gpu_state, lines, published,
                   last_pass, last_time, seen, last_dropped>>

\* line 41: open(tmp, "w") creates the temporary file or truncates it
OpenTmp ==
    /\ pc = "open"
    /\ tmp' = File(<<>>)
    /\ had_leftover' = (tmp.content # <<>>)
    /\ pc' = "write"
    /\ UNCHANGED <<config, rate_state, pass_state, gpu_state, lines, published,
                   last_pass, last_time, seen, last_dropped>>

\* a slip that writes each line to the published path as well
WriteLineInPlace ==
    /\ pc = "write"
    /\ Len(tmp.content) < Len(lines)
    /\ tmp' = File(Append(tmp.content, lines[Len(tmp.content) + 1]))
    /\ published' = tmp'
    /\ pc' = "write"
    /\ UNCHANGED <<config, rate_state, pass_state, gpu_state, lines, history>>

\* lines 42-43: the next line reaches the temporary file
WriteLine ==
    /\ pc = "write"
    /\ Len(tmp.content) < Len(lines)
    /\ tmp' = File(Append(tmp.content, lines[Len(tmp.content) + 1]))
    /\ pc' = "write"
    /\ UNCHANGED <<config, rate_state, pass_state, gpu_state, lines, published, history>>

\* end of the with block: the temporary file is closed
CloseTmp ==
    /\ pc = "write"
    /\ Len(tmp.content) = Len(lines)
    /\ pc' = "rename"
    /\ UNCHANGED <<config, rate_state, pass_state, gpu_state, lines, files, history>>

\* line 44: os.replace(tmp, path)
Rename ==
    /\ pc = "rename"
    /\ published' = File(tmp.content)
    /\ tmp' = NoFile
    /\ pc' = "sleep"
    /\ UNCHANGED <<config, rate_state, pass_state, gpu_state, lines, history>>

\* a slip that answers a failure by copying what the temporary file holds
PublishErrorCopies ==
    /\ HostDiskFaults(host)
    /\ pc \in {"open", "write", "rename"}
    /\ published' = tmp
    /\ pc' = "sleep"
    /\ UNCHANGED <<config, rate_state, pass_state, gpu_state, lines, tmp, history>>

\* a slip that lets the OSError leave write_metrics and main
PublishErrorUncaught ==
    /\ HostDiskFaults(host)
    /\ pc \in {"open", "write", "rename"}
    /\ pc' = "crashed"
    /\ UNCHANGED <<config, rate_state, pass_state, gpu_state, lines, files, history>>

\* lines 45-46: open, write, close or replace raises OSError; write_metrics
\* returns, the file system is as the failed call left it
PublishError ==
    /\ HostDiskFaults(host)
    /\ pc \in {"open", "write", "rename"}
    /\ pc' = "sleep"
    /\ UNCHANGED <<config, rate_state, pass_state, gpu_state, lines, files, history>>

\* lines 308-310
Sleep ==
    /\ pc = "sleep"
    /\ pc' = "loop_start"
    /\ UNCHANGED <<config, rate_state, pass_state, gpu_state, lines, files, history>>

\* the sampler is terminated from outside (a signal, a container stop), at
\* any point of the loop
Interrupt ==
    /\ pc # "killed"
    /\ pc' = "killed"
    /\ UNCHANGED <<config, rate_state, pass_state, gpu_state, lines, files, history>>

Cycle ==
    \/ LoopStart
    \/ SamplePid
    \/ ReplaceRateState
    \/ CollectGpu
    \/ BuildLines
    \/ OpenTmp
    \/ WriteLine
    \/ CloseTmp
    \/ Rename
    \/ PublishError
    \/ Sleep

Next == Cycle \/ Interrupt

Spec == Init /\ [][Next]_vars

\* the loop as long as nobody terminates the sampler: every call returns
LiveSpec == Init /\ [][Cycle]_vars /\ WF_vars(Cycle)

-----------------------------------------------------------------------------
(* Properties *)


\* the pass is past line 302: RateState holds this pass
AfterReplace == pc \in {"gpu", "build", "open", "write", "rename", "sleep"}

\* the pids with a proc_cpu_percent line in a line sequence
PidsIn(ls) == { l.pid : l \in { x \in Range(ls) : x.metric = "proc_cpu_percent" } }

\* C1: a reader of procstats.prom sees, after any step of the sampler
\* (a step of write_metrics, a failure of one, the termination of the
\* sampler), the content it saw before the step or the complete lines of the
\* pass in progress: never a prefix of them, never a mix of two passes.
C1_AtomicPublication ==
    [][ \/ published' = published
        \/ published' = File(BuildPromLines(current_procs, gpu_map)) ]_vars

\* the sampler was terminated while the temporary file held a proper, non-empty
\* prefix of the pass, and the published file holds an earlier pass
C1_Witness ==
    /\ pc = "killed"
    /\ published.exists /\ published.content # <<>>
    /\ tmp.exists
    /\ Len(tmp.content) >= 1 /\ Len(tmp.content) < Len(lines)
    /\ published.content # lines

\* C2: once a pass has replaced RateState, prev_ticks_map has an entry for
\* exactly the pids the pass sampled, each with the ticks the pass read; a
\* pid the pass did not sample has none, whatever earlier passes recorded.
C2_RateStateReplaced ==
    AfterReplace =>
        /\ DOMAIN prev_ticks_map = { i.pid : i \in Range(sampled) }
        /\ \A i \in Range(sampled) : prev_ticks_map[i.pid] = i.cpu_ticks

\* pid 1 was sampled in an earlier pass, was not sampled in this pass, which
\* sampled pid 2, and has no entry in RateState
C2_Witness ==
    /\ pc = "gpu"
    /\ 1 \in seen
    /\ { i.pid : i \in Range(sampled) } = {2}
    /\ DOMAIN prev_ticks_map = {2}

\* C3: a pid sampled in some pass before pass N, not sampled in pass N and
\* sampled in pass N+1 is reported at 0% in pass N+1, whatever its ticks were.
C3_NoStaleCarryOver ==
    \A i \in Range(sampled) :
        (pc = "sample" /\ i.pid \in seen /\ i.pid \notin DOMAIN last_pass)
            => i.cpu_percent = Zero

\* pid 1 is back after a pass without it, with more ticks than RateState ever
\* held for it, and is reported at 0%
C3_Witness ==
    /\ pc = "sample"
    /\ \E i \in Range(sampled) :
         /\ i.pid \in seen
         /\ i.pid \notin DOMAIN last_pass
         /\ i.cpu_ticks = 350
         /\ i.cpu_percent = Zero

\* C4: a pid sampled in two consecutive passes with ticks_2 >= ticks_1, the
\* second pass a positive time after the first, is reported at
\* (ticks_2 - ticks_1) / CLK_TCK / elapsed * 100, which is not negative;
\* ticks 100 then 350, one second apart, is rendered as 250.0.
C4_RateFormula ==
    \A i \in Range(sampled) :
        (/\ pc = "sample"
         /\ i.pid \in DOMAIN last_pass
         /\ i.cpu_ticks >= last_pass[i.pid]
         /\ now_time - last_time > 0)
        => /\ i.cpu_percent.den > 0
           /\ i.cpu_percent.num >= 0
           /\ i.cpu_percent.num * CLK_TCK * (now_time - last_time)
                = (i.cpu_ticks - last_pass[i.pid]) * 100 * TimeUnitsPerSecond
                    * i.cpu_percent.den
           /\ (/\ last_pass[i.pid] = 100
               /\ i.cpu_ticks = 350
               /\ now_time - last_time = TimeUnitsPerSecond)
              => Format1f(i.cpu_percent) = 2500

\* ticks 100 then 350 one second apart: 250.0
C4_Witness ==
    /\ pc = "sample"
    /\ now_time - last_time = TimeUnitsPerSecond
    /\ \E i \in Range(sampled) :
         /\ i.pid \in DOMAIN last_pass
         /\ last_pass[i.pid] = 100
         /\ i.cpu_ticks = 350
         /\ Format1f(i.cpu_percent) = 2500

\* C5: a pid without a value from the previous pass (every pid of the first
\* pass) is reported at 0%, a pid whose ticks went down is reported at 0%,
\* its ticks are recorded for the next pass like any other, and no
\* cpu_percent, sampled or written to a line, is negative.
C5_ZeroPolicy ==
    /\ \A i \in Range(sampled) :
         /\ i.cpu_percent.num >= 0
         /\ pc = "sample" =>
              /\ i.pid \notin DOMAIN last_pass => i.cpu_percent = Zero
              /\ (i.pid \in DOMAIN last_pass /\ i.cpu_ticks < last_pass[i.pid])
                   => /\ i.cpu_percent = Zero
                      /\ i.pid \in DOMAIN current_ticks_map
                      /\ current_ticks_map[i.pid] = i.cpu_ticks
    /\ \A l \in Range(lines) \cup Range(tmp.content) \cup Range(published.content) :
         l.metric = "proc_cpu_percent" => l.value >= 0

\* the ticks of a pid went from 350 down to 100: it is sampled at 0%
C5_Witness ==
    /\ pc = "sample"
    /\ \E i \in Range(sampled) :
         /\ i.pid \in DOMAIN last_pass
         /\ last_pass[i.pid] = 350
         /\ i.cpu_ticks = 100
         /\ i.cpu_percent = Zero
         /\ i \in Range(current_procs)

\* a read of get_process_info that found its file unreadable
SomeUnreadable(rd) ==
    \/ ~rd.comm
    \/ ~rd.cmdline
    \/ ~rd.ostat
    \/ rd.statm = Unreadable
    \/ rd.stat = Unreadable

\* the pass has built its lines and not started the next pass
Built == pc \in {"open", "write", "rename", "sleep"}

\* C6: a pid with any of its five files unreadable in the pass is skipped:
\* it gets no RateState entry and no sample to emit.
C6_UnreadableSkipped ==
    \A s \in Range(scanned) :
        SomeUnreadable(s.rd) =>
            /\ s.pid \notin DOMAIN current_ticks_map
            /\ s.pid \notin { i.pid : i \in Range(current_procs) }

\* c >= k for a rational c and an integer k
RatGeq(c, k) == c.num >= k * c.den

\* a ranks at least as high as b by (cpu_percent, rss)
RankGeq(a, b) ==
    LET l == a.cpu_percent.num * b.cpu_percent.den
        r == b.cpu_percent.num * a.cpu_percent.den
    IN  l > r \/ (l = r /\ a.rss >= b.rss)

PassesThresholds(i) == i.rss >= min_rss /\ RatGeq(i.cpu_percent, min_cpu)

\* C7: with TOP_N > 0 a published snapshot holds at most TOP_N processes,
\* and the lines of a pass are those of the TOP_N highest ranking samples
\* among those that passed the thresholds.
C7_TopNCap ==
    top_n > 0 =>
        /\ Cardinality(PidsIn(published.content)) <= top_n
        /\ Built =>
             /\ Cardinality(PidsIn(lines)) <= top_n
             /\ \A e, o \in Range(sampled) :
                  (/\ e.pid \in PidsIn(lines)
                   /\ o.pid \notin PidsIn(lines)
                   /\ PassesThresholds(o))
                  => RankGeq(e, o)

\* C8: a sample is kept, and has lines in the snapshot of its pass, exactly
\* when rss >= MIN_RSS_BYTES and cpu_percent >= MIN_CPU_PERCENT; with
\* MIN_RSS_BYTES = 1000, rss 999 is dropped and rss 1000 is kept.
C8_InclusiveThresholds ==
    \A i \in Range(sampled) :
        /\ i \in Range(current_procs) <=> PassesThresholds(i)
        /\ Built => (i.pid \in PidsIn(lines) <=> PassesThresholds(i))
        /\ (min_rss = 1000 /\ i.rss = 999) => i \notin Range(current_procs)
        /\ (min_rss = 1000 /\ min_cpu = 0 /\ i.rss = 1000) => i \in Range(current_procs)

\* MIN_RSS_BYTES = 1000: the pass sampled one pid at 999 bytes, which has
\* no line, and one at 1000 bytes, which has
C8_Witness ==
    /\ pc = "open"
    /\ min_rss = 1000
    /\ \E i, j \in Range(sampled) :
         /\ i.rss = 999 /\ i.pid \notin PidsIn(lines)
         /\ j.rss = 1000 /\ j.pid \in PidsIn(lines)

\* C9: a step of write_metrics that fails leaves the published file as it
\* was and takes the loop to its sleep; write_metrics leads nowhere but to
\* its next step, the sleep or the termination of the sampler; and a rename
\* that succeeds publishes the complete lines of its own pass and leaves no
\* temporary file, whatever earlier passes left behind.
C9_PublishErrorDropsSnapshot ==
    [][ /\ (pc \in {"open", "write", "rename"} /\ pc' = "sleep" /\ tmp' = tmp)
            => published' = published
        /\ pc \in {"open", "write", "rename"}
            => pc' \in {"write", "rename", "sleep", "killed"}
        /\ (pc = "rename" /\ tmp' # tmp)
            => /\ published' = File(BuildPromLines(current_procs, gpu_map))
               /\ tmp' = NoFile
               /\ pc' = "sleep"
      ]_vars

\* a pass failed while writing: the loop is at its sleep, the temporary file
\* holds a prefix of the pass and the published file an earlier pass
C9_Witness ==
    /\ pc = "sleep"
    /\ tmp.exists /\ Len(tmp.content) < Len(lines)
    /\ published.exists /\ published.content # <<>>
    /\ published.content # lines

UtilRows(p, d) ==
    { r \in Range(ParsedRows(pmon_out)) : r.pid = p /\ r.gpu = d }
MemRows(p, d) ==
    { r \in Range(ParsedRows(apps_out)) : r.pid = p /\ r.gpu = d }

\* the merged entries listed under pid p for device d
Entries(p, d) ==
    IF p \in DOMAIN gpu_map
    THEN { i \in 1..Len(gpu_map[p]) : gpu_map[p][i].gpu = d }
    ELSE {}

\* every (pid, device) a query delivered or the merge lists
GpuKeys ==
    { <<r.pid, r.gpu>> : r \in Range(ParsedRows(pmon_out)) }
      \cup { <<r.pid, r.gpu>> : r \in Range(ParsedRows(apps_out)) }
      \cup UNION { { <<p, gpu_map[p][i].gpu>> : i \in 1..Len(gpu_map[p]) } :
                   p \in DOMAIN gpu_map }

\* C11: for every pair (pid, device) the merge lists one entry under that pid
\* with that device index exactly when a source delivered a row for the pair;
\* sm and mem are the utilization row's values, or 0 when only the memory
\* source has the pair; framebuffer is the memory row's value, or 0 when only
\* the utilization source has the pair.
C11_MergePerPidDevice ==
    \A k \in GpuKeys :
        LET p == k[1]
            d == k[2]
            u == UtilRows(p, d)
            m == MemRows(p, d)
        IN  /\ (u \cup m = {}) => Entries(p, d) = {}
            /\ (u \cup m # {}) =>
                 /\ Cardinality(Entries(p, d)) = 1
                 /\ \A i \in Entries(p, d) :
                      LET e == gpu_map[p][i]
                      IN  /\ e.pid = p
                          /\ e.gpu = d
                          /\ u # {} => \E r \in u : e.sm = r.sm /\ e.mem = r.mem
                          /\ u = {} => e.sm = 0 /\ e.mem = 0
                          /\ m # {} => \E r \in m : e.fb = r.fb
                          /\ m = {} => e.fb = 0

\* one pass merged a pid that both sources report on device 0, only the
\* utilization source reports on device 1, next to a pid only the memory
\* source reports
C11_Witness ==
    /\ pc = "build"
    /\ UtilRows(1, <<"0">>) # {} /\ MemRows(1, <<"0">>) # {}
    /\ UtilRows(1, <<"1">>) # {} /\ MemRows(1, <<"1">>) = {}
    /\ UtilRows(2, <<"0">>) = {} /\ MemRows(2, <<"0">>) # {}
    /\ Len(gpu_map[1]) = 2
    /\ Len(gpu_map[2]) = 1

\* ---------------------------------------------------------------------
\* a failing accelerator query

\* the lines of the pass that carry metric m for pid p on device d
LinesOf(m, p, d) ==
    { i \in 1..Len(lines) :
        lines[i].metric = m /\ lines[i].pid = p /\ lines[i].gpu = d }

\* C12: when one accelerator query fails, the rows of the other one are still
\* merged, with the failed query's fields at 0; the pass goes on to build a
\* snapshot that has the cpu and rss line of every kept process and the
\* accelerator lines of its merged entries, and on a healthy disk that
\* snapshot is the published file when the pass sleeps.
C12_QueryFailureIsLocal ==
    /\ ~pmon_out.ok =>
         \A r \in Range(ParsedRows(apps_out)) :
             \E i \in Entries(r.pid, r.gpu) :
                 /\ gpu_map[r.pid][i].fb = r.fb
                 /\ gpu_map[r.pid][i].sm = 0
                 /\ gpu_map[r.pid][i].mem = 0
    /\ ~apps_out.ok =>
         \A r \in Range(ParsedRows(pmon_out)) :
             \E i \in Entries(r.pid, r.gpu) :
                 /\ gpu_map[r.pid][i].sm = r.sm
                 /\ gpu_map[r.pid][i].mem = r.mem
                 /\ gpu_map[r.pid][i].fb = 0
    /\ ((~pmon_out.ok \/ ~apps_out.ok) /\ Built) =>
         \A p \in Range(current_procs) :
             /\ \E i \in LinesOf("proc_cpu_percent", p.pid, NoGpu) :
                    lines[i].value = Format1f(p.cpu_percent)
             /\ \E i \in LinesOf("proc_memory_rss_bytes", p.pid, NoGpu) :
                    lines[i].value = p.rss
             /\ p.pid \in DOMAIN gpu_map =>
                  \A g \in Range(gpu_map[p.pid]) :
                      /\ \E i \in LinesOf("proc_gpu_sm_percent", p.pid, g.gpu) :
                             lines[i].value = g.sm
                      /\ \E i \in LinesOf("proc_gpu_mem_percent", p.pid, g.gpu) :
                             lines[i].value = g.mem
                      /\ \E i \in LinesOf("proc_gpu_fb_mem_mib", p.pid, g.gpu) :
                             lines[i].value = g.fb
    /\ ((~pmon_out.ok \/ ~apps_out.ok) /\ pc = "sleep" /\ ~HostDiskFaults(host)) =>
         published = File(lines)

\* the utilization query failed after printing a row, the memory query
\* delivered a row for the sampled pid, and the pass published cpu, rss and
\* the accelerator lines with sm 0
C12_Witness ==
    /\ pc = "sleep"
    /\ ~pmon_out.ok /\ pmon_out.rows # <<>>
    /\ apps_out.ok /\ MemRows(1, <<"0">>) # {}
    /\ published = File(lines)
    /\ LinesOf("proc_cpu_percent", 1, NoGpu) # {}
    /\ \E i \in LinesOf("proc_gpu_fb_mem_mib", 1, <<"0">>) : lines[i].value = 300
    /\ \E i \in LinesOf("proc_gpu_sm_percent", 1, <<"0">>) : lines[i].value = 0

\* ---------------------------------------------------------------------
\* label values

\* the character set of label values
LabelChars == AsciiAlnum \cup {"_", ":", ".", "-"}

\* the label values of a line that are text (the pid label is the decimal
\* form of an integer)
LabelValues(l) ==
    {l.process, l.user, l.exe, l.instance}
      \cup (IF l.gpu = NoGpu THEN {} ELSE {l.gpu})

\* C13: every label value of every line of a snapshot is made of the
\* characters A-Z, a-z, 0-9, `_`, `:`, `.`, `-` only and is at most 200
\* characters long.
C13_LabelCharset ==
    \A l \in Range(lines) :
        \A v \in LabelValues(l) :
            /\ Len(v) <= MaxLabelLen
            /\ \A i \in 1..Len(v) : v[i] \in LabelChars

\* ---------------------------------------------------------------------
\* the order of the steps of a cycle

\* the successor of each step of a cycle
StepOrder ==
    { <<"loop_start", "sample">>, <<"sample", "gpu">>, <<"gpu", "build">>,
      <<"build", "open">>, <<"open", "write">>, <<"write", "rename">>,
      <<"rename", "sleep">>, <<"sleep", "loop_start">> }

C15_PositiveElapsed ==
    pc = "sample" =>
        /\ TimeDelta(now_time, prev_time) > 0
        /\ \A i \in Range(sampled) :
             /\ i.cpu_percent.den > 0
             /\ i.cpu_percent.num >= 0
             /\ ( /\ now_time <= last_time
                  /\ i.pid \in DOMAIN last_pass
                  /\ i.cpu_ticks >= last_pass[i.pid] ) =>
                    i.cpu_percent.num * CLK_TCK * Epsilon
                      = (i.cpu_ticks - last_pass[i.pid]) * 100
                          * TimeUnitsPerSecond * i.cpu_percent.den

\* a pass whose clock reading is earlier than the previous one's computed a
\* positive rate for a pid whose ticks went up
C15_Witness ==
    /\ pc = "sample"
    /\ now_time < last_time
    /\ \E i \in Range(sampled) :
         /\ i.pid \in DOMAIN last_pass
         /\ i.cpu_ticks > last_pass[i.pid]
         /\ i.cpu_percent.num > 0

\* ---------------------------------------------------------------------
\* thresholds and RateState

\* the rate lines 284-289 give for ticks counted up from `before` over the
\* elapsed time of the pass
RateSince(ticks, before, elapsed) ==
    Rat((ticks - before) * 100 * TimeUnitsPerSecond, CLK_TCK * elapsed)

\* C16: the ticks of every sample of a pass are recorded, whether or not a
\* threshold drops the sample, and a pid that the previous pass sampled and
\* dropped has, when its ticks did not go down, the rate of the delta
\* against the previous pass's ticks over the elapsed time.
C16_DroppedStillRecorded ==
    pc = "sample" =>
        \A i \in Range(sampled) :
            /\ i.pid \in DOMAIN current_ticks_map
            /\ current_ticks_map[i.pid] = i.cpu_ticks
            /\ (i.pid \in last_dropped /\ i.cpu_ticks >= last_pass[i.pid]) =>
                 i.cpu_percent = RateSince(i.cpu_ticks, last_pass[i.pid],
                                           IF now_time - last_time <= 0
                                           THEN Epsilon ELSE now_time - last_time)

\* a pid dropped by MIN_CPU_PERCENT in the previous pass is sampled with a
\* positive rate and kept
C16_Witness ==
    /\ pc = "sample"
    /\ min_cpu > 0
    /\ \E i \in Range(current_procs) :
         /\ i.pid \in last_dropped
         /\ i.cpu_percent.num > 0

\* ---------------------------------------------------------------------
\* RateState and later failures

\* C17: the ticks and the timestamp the rates are computed against are
\* always those of the last pass that finished sampling, both of them,
\* whatever the accelerator collection and the writing of that pass did:
\* every rate of the running pass is the one the rate computation gives for
\* that pass's ticks and timestamp.
C17_RateStateAdvancesRegardless ==
    /\ prev_ticks_map = last_pass
    /\ prev_time = last_time
    /\ pc = "sample" =>
         \A i \in Range(sampled) :
             i.cpu_percent = CpuPercent(i.pid, i.cpu_ticks, last_pass,
                                        TimeDelta(now_time, last_time))

\* the previous pass collected no accelerator entry and failed to publish
\* its lines, leaving a temporary file behind; the running pass has a
\* positive rate from that pass's ticks
C17_Witness ==
    /\ pc = "sample"
    /\ gpu_map = EmptyMap
    /\ tmp.exists
    /\ lines # <<>>
    /\ published # File(lines)
    /\ \E i \in Range(sampled) :
         /\ i.pid \in DOMAIN last_pass
         /\ i.cpu_ticks > last_pass[i.pid]
         /\ i.cpu_percent.num > 0

\* ---------------------------------------------------------------------
\* the composition of a snapshot

\* the accelerator entries merged for a pid
NumEntries(pid) == IF pid \in DOMAIN gpu_map THEN Len(gpu_map[pid]) ELSE 0

\* the number of lines that precede the lines of the j-th kept process
RECURSIVE LinesBefore(_)
LinesBefore(j) ==
    IF j = 1 THEN 0
    ELSE LinesBefore(j - 1) + 2 + 3 * NumEntries(current_procs[j - 1].pid)

\* line k of the snapshot is the given metric of process p with the given
\* gpu label and value
IsLine(k, metric, p, gpu, value) ==
    /\ k \in 1..Len(lines)
    /\ lines[k].metric = metric
    /\ lines[k].pid = p.pid
    /\ lines[k].gpu = gpu
    /\ lines[k].value = value

\* C18: the snapshot is, for each kept process in turn, its
\* proc_cpu_percent line, its proc_memory_rss_bytes line and then, for each
\* accelerator entry merged for its pid in turn, the proc_gpu_sm_percent,
\* proc_gpu_mem_percent and proc_gpu_fb_mem_mib line of the entry; it has no
\* other line, so an entry of a pid that is not kept has none.
C18_SnapshotComposition ==
    Built =>
        /\ Len(lines) = LinesBefore(Len(current_procs) + 1)
        /\ \A j \in 1..Len(current_procs) :
             LET p == current_procs[j]
                 o == LinesBefore(j)
             IN  /\ IsLine(o + 1, "proc_cpu_percent", p, NoGpu,
                           Format1f(p.cpu_percent))
                 /\ IsLine(o + 2, "proc_memory_rss_bytes", p, NoGpu, p.rss)
                 /\ \A e \in 1..NumEntries(p.pid) :
                      LET g == gpu_map[p.pid][e]
                          b == o + 2 + 3 * (e - 1)
                      IN  /\ IsLine(b + 1, "proc_gpu_sm_percent", p, g.gpu, g.sm)
                          /\ IsLine(b + 2, "proc_gpu_mem_percent", p, g.gpu, g.mem)
                          /\ IsLine(b + 3, "proc_gpu_fb_mem_mib", p, g.gpu, g.fb)
        /\ \A l \in Range(lines) : \E p \in Range(current_procs) : l.pid = p.pid

\* a snapshot of one kept process with two merged entries, built while the
\* merge also holds an entry of a pid that is not sampled
C18_Witness ==
    /\ Built
    /\ Len(current_procs) = 1
    /\ NumEntries(current_procs[1].pid) = 2
    /\ NumEntries(2) = 1
    /\ Len(lines) = 8

\* ---------------------------------------------------------------------
\* a leftover temporary file

\* C19: while a pass writes, the temporary file holds the first lines of
\* that pass and nothing else, and all of them when it is closed; the
\* published file changes only by receiving exactly the lines of the pass,
\* the temporary file being gone afterwards.
C19_NoLeftoverPublished ==
    /\ [](pc \in {"write", "rename"} =>
            /\ tmp.exists
            /\ Len(tmp.content) <= Len(lines)
            /\ tmp.content = SubSeq(lines, 1, Len(tmp.content)))
    /\ [](pc = "rename" => tmp.content = lines)
    /\ [][published' # published =>
            /\ pc = "rename"
            /\ published' = File(lines)
            /\ ~tmp'.exists]_vars

\* a pass whose open found the lines a failed pass left in the temporary
\* file has published its own lines
C19_Witness ==
    /\ pc = "sleep"
    /\ had_leftover
    /\ ~tmp.exists
    /\ lines # <<>>
    /\ published = File(lines)

====
